---------------------------- MODULE Spec2Model ----------------------------
(***************************************************************************)
(* bot-destroyer: the expiry-redaction scheduler of a Matrix bot.          *)
(*                                                                         *)
(* The model follows src/bot_destroyer: destroy_loop.py (Room, Destroyer), *)
(* bot_commands.py (Command), main.py (after_first_sync) and storage.py    *)
(* (the last_room_events table).  A coroutine is cut at its awaits: one    *)
(* action is "the awaited answer arrives and the coroutine runs on to its  *)
(* next await".                                                            *)
(*                                                                         *)
(* Time is counted in minutes.  An event's server_timestamp is held in     *)
(* minutes as well: the code's timestamp / 1000.0 and total_seconds() / 60 *)
(* are folded into that unit.  delete_after keeps the unit the code stores *)
(* (the number written by Room.set_delete_after).                          *)
(***************************************************************************)
EXTENDS Integers, Sequences, FiniteSets, TLC

(* ------------------------------ bounds -------------------------------- *)
\* user events (messages, state events) posted into a room
MaxEvents == 2
\* redaction events in a room's timeline
MaxRedactions == 2
\* messages posted into a room when nothing fails (NextNoFaults)
MaxMessages == 3
\* minutes of the clock that goes minute by minute (NextExpiry)
MaxMinutes == 12
\* clock ticks of the main specification
MaxTime == 2
\* largest delay, in minutes, a persisted row starts with
MaxDelayMinutes == 1
\* events per page of room_messages / per side of room_context
PageSize == 2
\* redactions by other users, per room
MaxOtherRedacts == 1

(* ----------------------------- constants ------------------------------ *)
Rooms == {"r1"}
TaskIds == {1, 2}

\* Python None in a numeric or token field, and the empty-string token
None == 0 - 1
EmptyTok == 0 - 2

\* bot_commands.py: delay_ms = delay_minutes*60*1000
MsPerMinute == 60 * 1000
\* The clock of the main specification advances by a little more than the
\* delay of one configured minute, so that no event is met at the very
\* instant its time to expiry is zero.
TickMinutes == MsPerMinute + 1

persist_event_types ==
    { "m.room.server_acl", "m.room.encryption", "m.room.name", "m.room.avatar",
      "m.room.topic", "m.room.guest_access", "m.room.history_visibility",
      "m.room.join_rules", "m.room.power_levels", "m.room.create",
      "m.room.member", "m.room.redaction", "default" }

\* the type tags the environment posts; "missing" is an event without a
\* type.  The listed exempt types are met through m.room.redaction, which
\* every redact call adds to the timeline.
UserEventTypes == { "m.room.message", "missing" }

Min(a, b) == IF a < b THEN a ELSE b
Max(a, b) == IF a > b THEN a ELSE b

VARIABLES
    now,         \* wall clock, minutes
    phase,       \* "down" | "syncing" (before Destroyer()) | "running"
    hist,        \* hist[r]: the room's timeline on the server, oldest first
    store,       \* store[r]: the row of last_room_events
    room_cache,  \* room_cache[r]: the Room object of Room.room_cache
    tasks,       \* tasks[r][i]: the asyncio tasks running Room.main_loop
    room_tasks,  \* Destroyer.room_tasks[r]: task id, 0 when r is not a key
    cmd,         \* the command coroutine suspended inside _enable, if any
    out          \* what the last step let out: see Summary

vars == << now, phase, hist, store, room_cache, tasks, room_tasks, cmd, out >>

(* --------------------------- event predicates ------------------------- *)
\* ev.source.get("type", "default")
TypeOf(ev) == IF ev.type = "missing" THEN "default" ELSE ev.type

\* a variant that reads the type tag without the "default" fallback
ExemptByTag(ev) == ev.type \in persist_event_types

IsExempt(ev) == TypeOf(ev) \in persist_event_types

event_redaction(ev) == TypeOf(ev) = "m.room.redaction" /\ ev.sender = "bot"

event_redacted(ev) == ev.red # "none"

event_redacted_by_bot(ev) == event_redacted(ev) /\ ev.red = "bot"

(* ------------------------------ transport ----------------------------- *)
\* A token is a position in the timeline: p lies after event p.
\* room_messages(room, start = from): newest first, [ids, start, end]
BackPage(h, from) ==
    LET p == IF from = EmptyTok THEN Len(h) ELSE from
        n == Min(PageSize, p)
    IN  [ ids |-> [ i \in 1..n |-> p - i + 1 ], start |-> p, end |-> p - n ]

\* room_messages(room, start = from, direction = front): oldest first
FrontPage(h, from) ==
    LET p == IF from = EmptyTok THEN Len(h) ELSE from
        n == Min(PageSize, Len(h) - p)
    IN  [ ids |-> [ i \in 1..n |-> p + i ], start |-> p, end |-> p + n ]

\* room_context(room, event_id): the events after e and the bracket
Context(h, e) ==
    LET n == Min(PageSize, Len(h) - e)
    IN  [ ids |-> [ i \in 1..n |-> e + i ],
          start |-> Max(e - 1 - PageSize, 0), end |-> e + n ]

\* The end token of an exhausted listing: the start token again, or absent.
EndTokens(page) ==
    IF Len(page.ids) = 0 THEN { page.start, None } ELSE { page.end }


(* ------------------------------- Room --------------------------------- *)
\* Room.__init__: the fields read from the row by storage.get_room_all.
\* deletion_turned_on is None or (column == '1'); both None and False are
\* only ever tested for truth, so the field is held as a boolean.
LoadRoom(row) ==
    [ loaded |-> TRUE,
      last_event_id |-> row.event_id,
      timestamp |-> row.timestamp,
      batch_token_start |-> row.batch_token_start,
      batch_token_end |-> row.batch_token_end,
      deletion_turned_on |-> (row.deletion_turned_on = "1"),
      delete_after_m |-> row.delete_after,
      accept_requested |-> FALSE ]

\* no entry in Room.room_cache
NoRoom ==
    [ loaded |-> FALSE, last_event_id |-> None, timestamp |-> None,
      batch_token_start |-> None, batch_token_end |-> None,
      deletion_turned_on |-> FALSE, delete_after_m |-> None,
      accept_requested |-> FALSE ]

\* storage.create_room: INSERT INTO last_room_events (room_id)
NewRow ==
    [ exists |-> TRUE, event_id |-> None, timestamp |-> None,
      delete_after |-> None, deletion_turned_on |-> "None",
      batch_token_start |-> None, batch_token_end |-> None ]

NoRow == [ NewRow EXCEPT !.exists = FALSE ]

\* Room.set_event, the in-memory half
set_event(rm, id, ts, s, e) ==
    [ rm EXCEPT !.last_event_id = id, !.timestamp = ts,
                !.batch_token_start = s, !.batch_token_end = e ]

\* Room.set_event, the half done by storage.set_room_event
set_room_event(row, rm) ==
    [ row EXCEPT !.event_id = rm.last_event_id, !.timestamp = rm.timestamp,
                 !.batch_token_start = rm.batch_token_start,
                 !.batch_token_end = rm.batch_token_end ]

\* Room.get_time_to_expiry_in_min at clock t
get_time_to_expiry_in_min(rm, t, timestamp) ==
    rm.delete_after_m - (t - timestamp)

\* Room.event_expired at clock t
event_expired(rm, t, ev) == get_time_to_expiry_in_min(rm, t, ev.ts) < 0

\* Python truth of a nullable number: "if not self.delete_after_m"
Falsy(x) == x = None \/ x = 0

(* ------------------------------ server -------------------------------- *)
\* The timestamp of an exempt event is never read: every scan tests the type
\* before the expiry.  It is recorded as 0.
Stamp(type, t) == IF type \in persist_event_types \/ type = "missing" THEN 0 ELSE t

\* a redact call lands: the event is marked and a redaction event, which
\* names the event it redacts, follows
Redacted(h, e, who, t) ==
    Append( [ h EXCEPT ![e].red = IF h[e].red = "none" THEN who ELSE @ ],
            [ type |-> "m.room.redaction", sender |-> who,
              ts |-> Stamp("m.room.redaction", t), red |-> "none",
              redacts |-> e ] )

(* --------------------------- the scans -------------------------------- *)
\* a variant that goes on when the listing answers its start token again
LoopCondOpen(start, end) == end # None

\* the loop condition shared by the three paginating loops
LoopCond(start, end) == start # end /\ end # None

\* a variant that passes an event redacted by the bot instead of stopping
RECURSIVE FirstScanPast(_, _, _, _, _)
FirstScanPast(rm, t, h, ids, k) ==
    IF k > Len(ids) THEN [ exit |-> FALSE, cand |-> None ]
    ELSE LET ev == h[ids[k]] IN
         IF event_redacted_by_bot(ev) \/ event_redaction(ev)
         THEN FirstScanPast(rm, t, h, ids, k + 1)
         ELSE IF ~IsExempt(ev) /\ event_expired(rm, t, ev)
              THEN [ exit |-> TRUE, cand |-> ids[k] ]
         ELSE FirstScanPast(rm, t, h, ids, k + 1)

\* fetch_first_event_id, the for loop over one chunk (newest first)
RECURSIVE FirstScan(_, _, _, _, _)
FirstScan(rm, t, h, ids, k) ==
    IF k > Len(ids) THEN [ exit |-> FALSE, cand |-> None ]
    ELSE LET ev == h[ids[k]] IN
         IF event_redacted_by_bot(ev) THEN [ exit |-> TRUE, cand |-> None ]
         ELSE IF event_redaction(ev) THEN FirstScan(rm, t, h, ids, k + 1)
         ELSE IF ~IsExempt(ev) /\ event_expired(rm, t, ev)
              THEN [ exit |-> TRUE, cand |-> ids[k] ]
         ELSE FirstScan(rm, t, h, ids, k + 1)

\* delete_previous_events, first loop: is an event redacted by the bot in
\* the chunk
BackFound(h, ids) ==
    \E k \in 1..Len(ids) : event_redacted_by_bot(h[ids[k]])

\* a variant whose response carries no redacted_because
SnapshotUnredacted(h, ids) ==
    [ k \in 1..Len(ids) |-> [ id |-> ids[k], red |-> "none" ] ]

\* the chunk as the response holds it: each id with the redaction seen
Snapshot(h, ids) ==
    [ k \in 1..Len(ids) |-> [ id |-> ids[k], red |-> h[ids[k]].red ] ]

\* delete_previous_events, second loop, the for loop over one chunk from
\* item k: what stops it
RECURSIVE ForwardScan(_, _, _, _, _)
ForwardScan(rm, t, h, items, k) ==
    IF k > Len(items) THEN [ kind |-> "end", k |-> k ]
    ELSE LET ev == h[items[k].id] IN
         IF items[k].id = rm.last_event_id THEN [ kind |-> "exit", k |-> k ]
         ELSE IF items[k].red # "none" THEN ForwardScan(rm, t, h, items, k + 1)
         ELSE IF event_redaction(ev) THEN ForwardScan(rm, t, h, items, k + 1)
         ELSE IF IsExempt(ev) THEN ForwardScan(rm, t, h, items, k + 1)
         ELSE IF event_expired(rm, t, ev) THEN [ kind |-> "redact", k |-> k ]
         ELSE [ kind |-> "raise", k |-> k ]

\* a variant that takes the first event after the cursor, whatever its type
NextScanAny(h, ids, k) == IF k > Len(ids) THEN None ELSE ids[k]

\* set_next_event, the for loop over events_after: the first event whose
\* type is not exempt, None when there is none
RECURSIVE NextScan(_, _, _)
NextScan(h, ids, k) ==
    IF k > Len(ids) THEN None
    ELSE IF ~IsExempt(h[ids[k]]) THEN ids[k]
    ELSE NextScan(h, ids, k + 1)

(* --------------------------- Room.main_loop --------------------------- *)
\* A task is suspended at one await of main_loop (pc):
\*   "sleep2"    asyncio.sleep(2) at the start
\*   "bf_back"   delete_previous_events, room_messages of the first loop
\*   "bf_fwd"    delete_previous_events, room_messages of the second loop
\*   "bf_redact" delete_previous_events, send_room_redact
\*   "sleep_exp" asyncio.sleep(time_to_sleep_for_in_s)
\*   "redact"    send_room_redact of the cursor event
\*   "next"      set_next_event, room_context
\*   "sleep10"   asyncio.sleep(10)
\*   "ff"        fetch_first_event_id, room_messages
\* "done" is a finished task still held by Destroyer.room_tasks, "free" an
\* unused slot.  cancelled: task.cancel() was accepted and CancelledError is
\* yet to be thrown into the coroutine.  start/end are resp.start/resp.end, lid is set_next_event's
\* local last_event_id, tgt the event of the redact call in flight, chunk
\* the rest of resp.chunk behind a redact call.
Idle(pc) ==
    [ pc |-> pc, start |-> None, end |-> None, lid |-> None, tgt |-> None,
      wakeAt |-> None, chunk |-> << >>, cancelled |-> FALSE ]

Live(task) == task.pc \notin { "free", "done" }

\* what a step lets out: a redact call, a message to the room, the return
\* of Destroyer.start_room_loop / stop_room_loop, an exception
Redact(r, e) == [ op |-> "redact", room |-> r, ev |-> e ]
Send(r, text) == [ op |-> "send", room |-> r, text |-> text ]
Raise(r, text) == [ op |-> "raise", room |-> r, text |-> text ]
Call(r, op, ret) == [ op |-> op, room |-> r, ret |-> ret ]

Count(outs, op) == Cardinality({ k \in 1..Len(outs) : outs[k].op = op })

\* The variable out keeps of a step's outputs: what start_room_loop /
\* stop_room_loop returned ("none" when neither was called), whether a
\* task of main_loop ended on an error and whether an exception left the
\* coroutine, and diag and text, the number of messages a task that ended
\* on an error posted in its last step and the message.
Summary(outs, failed) ==
    [ start |-> IF \E k \in 1..Len(outs) : outs[k].op = "start"
                THEN (IF \E k \in 1..Len(outs) : outs[k].op = "start" /\ outs[k].ret
                      THEN "true" ELSE "false")
                ELSE "none",
      stop |-> IF \E k \in 1..Len(outs) : outs[k].op = "stop"
               THEN (IF \E k \in 1..Len(outs) : outs[k].op = "stop" /\ outs[k].ret
                     THEN "true" ELSE "false")
               ELSE "none",
      failed |-> failed,
      raised |-> \E k \in 1..Len(outs) : outs[k].op = "raise",
      diag |-> IF failed THEN Count(outs, "send") ELSE 0,
      text |-> IF failed /\ \E k \in 1..Len(outs) : outs[k].op = "send"
               THEN outs[CHOOSE k \in 1..Len(outs) : outs[k].op = "send"].text
               ELSE "" ]

Quiet == Summary(<< >>, FALSE)

\* what a run of the coroutine up to its next await leaves behind
Res(task, rm, wrote, h, outs) ==
    [ task |-> task, rm |-> rm, wrote |-> wrote, h |-> h, outs |-> outs,
      failed |-> FALSE ]

\* a variant that forgets the cursor when the loop ends on an error
FailedCleared(r, rm, h, text) ==
    [ Res(Idle("done"),
          [ rm EXCEPT !.last_event_id = None, !.timestamp = None,
                      !.batch_token_start = None, !.batch_token_end = None ],
          TRUE, h, << Send(r, text) >>)
        EXCEPT !.failed = TRUE ]

\* main_loop returns after send_text_to_room
Failed(r, rm, h, text) ==
    [ Res(Idle("done"), rm, FALSE, h, << Send(r, text) >>)
        EXCEPT !.failed = TRUE ]

\* main_loop, the head of "while self.deletion_turned_on" up to its await
LoopTop(r, rm, wrote, h, t) ==
    IF ~rm.deletion_turned_on THEN Res(Idle("done"), rm, wrote, h, << >>)
    ELSE IF rm.last_event_id # None
    THEN IF get_time_to_expiry_in_min(rm, t, rm.timestamp) * 60 > 0
         THEN Res([ Idle("sleep_exp") EXCEPT !.wakeAt =
                      t + get_time_to_expiry_in_min(rm, t, rm.timestamp) ],
                  rm, wrote, h, << >>)
         ELSE Res([ Idle("redact") EXCEPT !.tgt = rm.last_event_id ],
                  rm, wrote, h, << Redact(r, rm.last_event_id) >>)
    ELSE Res(Idle("sleep10"), rm, wrote, h, << >>)

\* delete_previous_events is called: up to its first room_messages
EnterBackfill(r, rm, wrote, h, t) ==
    IF LoopCond(None, rm.batch_token_end)
    THEN Res([ Idle("bf_back") EXCEPT !.end = rm.batch_token_end ],
             rm, wrote, h, << >>)
    ELSE LoopTop(r, rm, wrote, h, t)

\* a variant that redacts the event that has not expired and goes on
ForwardRunLenient(r, rm, h, t, items, start, end) ==
    LET o == ForwardScan(rm, t, h, items, 1) IN
    CASE o.kind \in { "redact", "raise" } ->
           Res([ Idle("bf_redact") EXCEPT
                   !.tgt = items[o.k].id, !.start = start, !.end = end,
                   !.chunk = SubSeq(items, o.k + 1, Len(items)) ],
               rm, FALSE, h, << Redact(r, items[o.k].id) >>)
      [] o.kind = "exit" -> LoopTop(r, rm, FALSE, h, t)
      [] o.kind = "end" ->
           IF LoopCond(start, end)
           THEN Res([ Idle("bf_fwd") EXCEPT !.start = start, !.end = end ],
                    rm, FALSE, h, << >>)
           ELSE LoopTop(r, rm, FALSE, h, t)

\* delete_previous_events, second loop: the chunk is worked from its first
\* item up to the next await
ForwardRun(r, rm, h, t, items, start, end) ==
    LET o == ForwardScan(rm, t, h, items, 1) IN
    CASE o.kind = "redact" ->
           Res([ Idle("bf_redact") EXCEPT
                   !.tgt = items[o.k].id, !.start = start, !.end = end,
                   !.chunk = SubSeq(items, o.k + 1, Len(items)) ],
               rm, FALSE, h, << Redact(r, items[o.k].id) >>)
      [] o.kind = "raise" -> Failed(r, rm, h, "Failed to delete events")
      [] o.kind = "exit" -> LoopTop(r, rm, FALSE, h, t)
      [] o.kind = "end" ->
           IF LoopCond(start, end)
           THEN Res([ Idle("bf_fwd") EXCEPT !.start = start, !.end = end ],
                    rm, FALSE, h, << >>)
           ELSE LoopTop(r, rm, FALSE, h, t)

\* the answer to room_messages of the first loop of delete_previous_events
BackfillBack(r, rm, h, t, task, end) ==
    LET page == BackPage(h, task.end) IN
    IF BackFound(h, page.ids)
    THEN Res([ Idle("bf_fwd") EXCEPT !.start = page.start, !.end = end ],
             rm, FALSE, h, << >>)
    ELSE IF LoopCond(page.start, end)
    THEN Res([ Idle("bf_back") EXCEPT !.start = page.start, !.end = end ],
             rm, FALSE, h, << >>)
    ELSE LoopTop(r, rm, FALSE, h, t)

\* the answer to room_messages of the second loop
BackfillForward(r, rm, h, t, task, end) ==
    LET page == FrontPage(h, task.end) IN
    ForwardRun(r, rm, h, t, Snapshot(h, page.ids), page.start, end)

\* the answer to send_room_redact inside delete_previous_events
BackfillRedact(r, rm, h, t, task) ==
    LET h2 == Redacted(h, task.tgt, "bot", t) IN
    ForwardRun(r, rm, h2, t, task.chunk, task.start, task.end)

\* the answer to send_room_redact of the cursor event: set_next_event is
\* called and runs up to its room_context
CursorRedact(r, rm, h, t, task) ==
    Res([ Idle("next") EXCEPT !.lid = rm.last_event_id ],
        rm, FALSE, Redacted(h, task.tgt, "bot", t), << >>)

\* a variant that keeps the cursor when nothing follows it
set_next_event_kept(r, rm, h, t, task) ==
    LET ctx == Context(h, task.lid)
        cand == NextScan(h, ctx.ids, 1)
    IN  IF Len(ctx.ids) = 0
        THEN LoopTop(r, rm, FALSE, h, t)
        ELSE IF cand # None
        THEN LoopTop(r, set_event(rm, cand, h[cand].ts, ctx.start, ctx.end),
                     TRUE, h, t)
        ELSE Res([ Idle("next") EXCEPT !.lid = ctx.ids[Len(ctx.ids)] ],
                 rm, FALSE, h, << >>)

\* set_next_event: the answer to room_context
set_next_event(r, rm, h, t, task) ==
    LET ctx == Context(h, task.lid)
        cand == NextScan(h, ctx.ids, 1)
    IN  IF Len(ctx.ids) = 0
        THEN LoopTop(r, set_event(rm, None, None, None, None), TRUE, h, t)
        ELSE IF cand # None
        THEN LoopTop(r, set_event(rm, cand, h[cand].ts, ctx.start, ctx.end),
                     TRUE, h, t)
        ELSE Res([ Idle("next") EXCEPT !.lid = ctx.ids[Len(ctx.ids)] ],
                 rm, FALSE, h, << >>)

\* fetch_first_event_id: the answer to room_messages; found tells whether
\* the scan is over and cand what it returns
fetch_first_event_id(rm, h, t, from, end) ==
    LET page == BackPage(h, from)
        sc == FirstScan(rm, t, h, page.ids, 1)
    IN  IF ~sc.exit /\ LoopCond(page.start, end)
        THEN [ over |-> FALSE, start |-> page.start, end |-> end,
               cand |-> None, rm |-> rm ]
        ELSE [ over |-> TRUE, start |-> page.start, end |-> end,
               cand |-> sc.cand,
               rm |-> IF sc.cand = None
                      THEN set_event(rm, None, None, None, None)
                      ELSE set_event(rm, sc.cand, h[sc.cand].ts,
                                     end, page.start) ]

\* main_loop, the no-cursor branch: the answer to room_messages inside
\* fetch_first_event_id
LocateStep(r, rm, h, t, task, end) ==
    LET f == fetch_first_event_id(rm, h, t, task.end, end) IN
    IF ~f.over
    THEN Res([ Idle("ff") EXCEPT !.start = f.start, !.end = f.end ],
             rm, FALSE, h, << >>)
    ELSE IF f.cand # None THEN EnterBackfill(r, f.rm, TRUE, h, t)
    ELSE LoopTop(r, f.rm, TRUE, h, t)

\* main_loop, the no-cursor branch after asyncio.sleep(10)
LocateStart(r, rm, h, t) ==
    IF Falsy(rm.delete_after_m) THEN LoopTop(r, rm, FALSE, h, t)
    ELSE Res([ Idle("ff") EXCEPT !.end = EmptyTok ], rm, FALSE, h, << >>)

\* main_loop after asyncio.sleep(2)
MainLoopStart(r, rm, h, t) ==
    IF rm.last_event_id # None THEN EnterBackfill(r, rm, FALSE, h, t)
    ELSE LoopTop(r, rm, FALSE, h, t)

\* the end token a listing answers with: absent tells which of EndTokens
\* an exhausted listing gives
EndOf(page, absent) ==
    IF Len(page.ids) = 0 THEN (IF absent THEN None ELSE page.start)
    ELSE page.end

\* delete_previous_events run from its call to its return with nothing else
\* running in between: the timeline it leaves, the number of redact calls
\* it made and whether it raised
RECURSIVE BackfillPass(_, _, _, _, _, _)
BackfillPass(r, rm, t, res, n, absent) ==
    CASE res.task.pc = "bf_back" ->
           BackfillPass(r, rm, t,
             BackfillBack(r, rm, res.h, t, res.task,
                          EndOf(BackPage(res.h, res.task.end), absent)),
             n, absent)
      [] res.task.pc = "bf_fwd" ->
           BackfillPass(r, rm, t,
             BackfillForward(r, rm, res.h, t, res.task,
                             EndOf(FrontPage(res.h, res.task.end), absent)),
             n, absent)
      [] res.task.pc = "bf_redact" ->
           BackfillPass(r, rm, t,
             BackfillRedact(r, rm, res.h, t, res.task), n + 1, absent)
      [] OTHER -> [ h |-> res.h, redacts |-> n, failed |-> res.failed ]

delete_previous_events(r, rm, h, t, absent) ==
    BackfillPass(r, rm, t, EnterBackfill(r, rm, FALSE, h, t), 0, absent)

\* set_next_event run from its first room_context to its return, and
\* main_loop on to its next await, with nothing else running in between
RECURSIVE AdvancePass(_, _, _, _)
AdvancePass(r, rm, t, res) ==
    IF res.task.pc = "next"
    THEN AdvancePass(r, rm, t, set_next_event(r, rm, res.h, t, res.task))
    ELSE res

\* fetch_first_event_id run from its first room_messages to its return
\* with nothing else running in between
RECURSIVE LocateScan(_, _, _, _, _)
LocateScan(rm, h, t, from, absent) ==
    LET f == fetch_first_event_id(rm, h, t, from,
                                  EndOf(BackPage(h, from), absent))
    IN  IF f.over THEN f ELSE LocateScan(rm, h, t, f.end, absent)

(* ------------------------------ the process --------------------------- *)
NoCmd == [ pc |-> "idle", room |-> "", start |-> None, end |-> None ]

FreeTasks == [ i \in TaskIds |-> Idle("free") ]

\* the delays a persisted row may start with
InitDelays == { None } \cup { m * MsPerMinute : m \in 1..MaxDelayMinutes }

InitRows ==
    { NoRow } \cup
    { [ NewRow EXCEPT !.delete_after = d, !.deletion_turned_on = f ] :
        d \in InitDelays, f \in { "None", "1" } }

Init ==
    /\ now = 0
    /\ phase = "syncing"
    /\ hist = [ r \in Rooms |-> << >> ]
    /\ store \in [ Rooms -> InitRows ]
    /\ room_cache = [ r \in Rooms |-> NoRoom ]
    /\ tasks = [ r \in Rooms |-> FreeTasks ]
    /\ room_tasks = [ r \in Rooms |-> 0 ]
    /\ cmd = NoCmd
    /\ out = Quiet

Up == phase # "down"

\* the event loop has a CancelledError to throw before the sync task goes on
CancelPending == \E r \in Rooms, i \in TaskIds : tasks[r][i].cancelled

\* the lowest unused task slot of a room
FreeSlot(ts) == CHOOSE i \in TaskIds :
    ts[i].pc = "free" /\ \A j \in TaskIds : ts[j].pc = "free" => i <= j

UserEvents(h) ==
    { k \in 1..Len(h) : h[k].sender = "user" /\ h[k].type # "m.room.redaction" }

Redactions(h) == { k \in 1..Len(h) : h[k].type = "m.room.redaction" }

\* the timeline has room for n more redaction events
Room4(h, n) == Cardinality(Redactions(h)) + n <= MaxRedactions

(* ----------------------------- environment ---------------------------- *)
Tick ==
    /\ now < MaxTime * TickMinutes
    /\ now' = now + TickMinutes
    /\ out' = Quiet
    /\ UNCHANGED << phase, hist, store, room_cache, tasks, room_tasks, cmd >>

\* a user posts an event into the room
NewEvent(r, type) ==
    /\ Cardinality(UserEvents(hist[r])) < MaxEvents
    /\ hist' = [ hist EXCEPT ![r] = Append(@,
                   [ type |-> type, sender |-> "user",
                     ts |-> Stamp(type, now), red |-> "none",
                     redacts |-> None ]) ]
    /\ out' = Quiet
    /\ UNCHANGED << now, phase, store, room_cache, tasks, room_tasks, cmd >>

\* a user posts a message into the room
PostMessage(r) ==
    /\ Cardinality(UserEvents(hist[r])) < MaxMessages
    /\ hist' = [ hist EXCEPT ![r] = Append(@,
                   [ type |-> "m.room.message", sender |-> "user",
                     ts |-> Stamp("m.room.message", now), red |-> "none",
                     redacts |-> None ]) ]
    /\ out' = Quiet
    /\ UNCHANGED << now, phase, store, room_cache, tasks, room_tasks, cmd >>

\* another user redacts an event
OtherRedact(r, e) ==
    /\ e \in UserEvents(hist[r])
    /\ hist[r][e].red = "none"
    /\ Cardinality({ k \in Redactions(hist[r]) :
                       hist[r][k].sender = "user" }) < MaxOtherRedacts
    /\ Room4(hist[r], 1)
    /\ hist' = [ hist EXCEPT ![r] = Redacted(@, e, "user", now) ]
    /\ out' = Quiet
    /\ UNCHANGED << now, phase, store, room_cache, tasks, room_tasks, cmd >>

\* the redact calls in flight when the event loop goes away: each reached
\* the server or did not
InFlight(r) ==
    { i \in TaskIds : tasks[r][i].pc \in { "redact", "bf_redact" }
                      /\ tasks[r][i].tgt # None }

RECURSIVE LandAll(_, _, _)
LandAll(h, ts, ids) ==
    IF ids = { } THEN h
    ELSE LET i == CHOOSE j \in ids : \A k \in ids : j <= k
         IN  LandAll(Redacted(h, ts[i].tgt, "bot", now), ts, ids \ { i })

\* the process ends: every task, Room.room_cache and Destroyer.room_tasks
\* go with it; the rows stay
ProcessEnds(land) ==
    /\ phase' = "down"
    /\ room_cache' = [ r \in Rooms |-> NoRoom ]
    /\ tasks' = [ r \in Rooms |-> FreeTasks ]
    /\ room_tasks' = [ r \in Rooms |-> 0 ]
    /\ cmd' = NoCmd
    /\ \A r \in Rooms :
         land => Room4(hist[r], Cardinality(InFlight(r)))
    /\ hist' = [ r \in Rooms |->
                   IF land THEN LandAll(hist[r], tasks[r], InFlight(r))
                   ELSE hist[r] ]
    /\ UNCHANGED now

Kill(land) ==
    /\ Up
    /\ land => \E r \in Rooms : InFlight(r) # { }
    /\ ProcessEnds(land)
    /\ out' = Quiet
    /\ UNCHANGED store

\* the process is started again: main() up to the first sync
Restart ==
    /\ phase = "down"
    /\ phase' = "syncing"
    /\ out' = Quiet
    /\ UNCHANGED << now, hist, store, room_cache, tasks, room_tasks, cmd >>

(* ------------------------------ Destroyer ----------------------------- *)
\* Room.get_existing: the cached Room, else a Room read from the row (which
\* is then cached), else None (NoRoom)
get_existing(r) ==
    IF room_cache[r].loaded THEN room_cache[r]
    ELSE IF store[r].exists THEN LoadRoom(store[r])
    ELSE NoRoom

\* a task leaves Destroyer.room_tasks: a finished one is dropped with it
Dropped(ts, i) ==
    IF i # 0 /\ ts[i].pc = "done" THEN [ ts EXCEPT ![i] = Idle("free") ] ELSE ts

\* create_task(room.main_loop()) stored under the room id
Created(ts, reg) ==
    LET i == FreeSlot(ts)
    IN  [ tasks |-> Dropped([ ts EXCEPT ![i] = Idle("sleep2") ], reg),
          reg |-> i ]

\* a variant that does not look the room up in room_tasks
StartUnchecked(ts, reg) ==
    [ ret |-> TRUE, tasks |-> Created(ts, reg).tasks,
      reg |-> Created(ts, reg).reg ]

\* a variant that answers True whatever task.cancel() says
StopAlwaysTrue(ts, reg) ==
    IF reg = 0 THEN [ ret |-> FALSE, tasks |-> ts, reg |-> reg ]
    ELSE IF ts[reg].pc = "done"
    THEN [ ret |-> TRUE, tasks |-> Dropped(ts, reg), reg |-> 0 ]
    ELSE [ ret |-> TRUE, tasks |-> [ ts EXCEPT ![reg].cancelled = TRUE ],
           reg |-> 0 ]

\* Destroyer.start_room_loop
start_room_loop(ts, reg) ==
    IF reg # 0 THEN [ ret |-> FALSE, tasks |-> ts, reg |-> reg ]
    ELSE [ ret |-> TRUE, tasks |-> Created(ts, reg).tasks,
           reg |-> Created(ts, reg).reg ]

\* Destroyer.stop_room_loop: pop, then task.cancel(), which is refused by a
\* finished task
stop_room_loop(ts, reg) ==
    IF reg = 0 THEN [ ret |-> FALSE, tasks |-> ts, reg |-> reg ]
    ELSE IF ts[reg].pc = "done"
    THEN [ ret |-> FALSE, tasks |-> Dropped(ts, reg), reg |-> 0 ]
    ELSE [ ret |-> TRUE, tasks |-> [ ts EXCEPT ![reg].cancelled = TRUE ],
           reg |-> 0 ]

\* Destroyer.__init__ for one room id of storage.get_all_rooms()
BootRoom(r) ==
    IF store[r].exists /\ get_existing(r).deletion_turned_on
    THEN Created(tasks[r], room_tasks[r])
    ELSE [ tasks |-> tasks[r], reg |-> room_tasks[r] ]

\* main.py after_first_sync: client.synced is set once the first sync,
\* callbacks included, is through; then Destroyer(client, store)
Bootstrap ==
    /\ phase = "syncing"
    /\ cmd.pc = "idle"
    /\ ~CancelPending
    /\ phase' = "running"
    /\ room_cache' = [ r \in Rooms |->
                         IF store[r].exists THEN get_existing(r)
                         ELSE room_cache[r] ]
    /\ tasks' = [ r \in Rooms |-> BootRoom(r).tasks ]
    /\ room_tasks' = [ r \in Rooms |-> BootRoom(r).reg ]
    /\ out' = Quiet
    /\ UNCHANGED << now, hist, store, cmd >>

\* CancelledError is thrown into the coroutine at its await: the task ends
\* (a redact call in flight reached the server or did not)
DeliverCancel(r, i, land) ==
    /\ Up
    /\ tasks[r][i].cancelled
    /\ land => i \in InFlight(r) /\ Room4(hist[r], 1)
    /\ tasks' = [ tasks EXCEPT ![r][i] = Idle("free") ]
    /\ hist' = [ hist EXCEPT ![r] =
                   IF land THEN Redacted(@, tasks[r][i].tgt, "bot", now)
                   ELSE @ ]
    /\ out' = Quiet
    /\ UNCHANGED << now, phase, store, room_cache, room_tasks, cmd >>

(* --------------------------- steps of a task -------------------------- *)
\* the coroutine of task i of room r ran on to its next await
Apply(r, i, res) ==
    /\ tasks' = [ tasks EXCEPT ![r][i] =
                    IF res.task.pc = "done" /\ room_tasks[r] # i
                    THEN Idle("free") ELSE res.task ]
    /\ room_cache' = [ room_cache EXCEPT ![r] = res.rm ]
    /\ store' = IF res.wrote
                THEN [ store EXCEPT ![r] = set_room_event(@, res.rm) ]
                ELSE store
    /\ hist' = [ hist EXCEPT ![r] = res.h ]
    /\ out' = Summary(res.outs, res.failed)
    /\ UNCHANGED << now, phase, room_tasks, cmd >>

Runs(r, i, pc) ==
    /\ Up
    /\ tasks[r][i].pc = pc
    /\ ~tasks[r][i].cancelled

MainLoopWake(r, i) ==
    /\ Runs(r, i, "sleep2")
    /\ Apply(r, i, MainLoopStart(r, room_cache[r], hist[r], now))

BackfillBackStep(r, i, ok) ==
    /\ Runs(r, i, "bf_back")
    /\ IF ok
       THEN \E end \in EndTokens(BackPage(hist[r], tasks[r][i].end)) :
              Apply(r, i, BackfillBack(r, room_cache[r], hist[r], now,
                                       tasks[r][i], end))
       ELSE Apply(r, i, Failed(r, room_cache[r], hist[r],
                               "Failed to delete events"))

BackfillForwardStep(r, i, ok) ==
    /\ Runs(r, i, "bf_fwd")
    /\ IF ok
       THEN \E end \in EndTokens(FrontPage(hist[r], tasks[r][i].end)) :
              Apply(r, i, BackfillForward(r, room_cache[r], hist[r], now,
                                          tasks[r][i], end))
       ELSE Apply(r, i, Failed(r, room_cache[r], hist[r],
                               "Failed to delete events"))

\* a variant that takes a refused redact call for done and scans on
BackfillRedactStepOn(r, i, ok) ==
    /\ Runs(r, i, "bf_redact")
    /\ IF ok
       THEN /\ Room4(hist[r], 1)
            /\ Apply(r, i, BackfillRedact(r, room_cache[r], hist[r], now,
                                          tasks[r][i]))
       ELSE Apply(r, i, ForwardRun(r, room_cache[r], hist[r], now,
                                   tasks[r][i].chunk, tasks[r][i].start,
                                   tasks[r][i].end))

BackfillRedactStep(r, i, ok) ==
    /\ Runs(r, i, "bf_redact")
    /\ IF ok
       THEN /\ Room4(hist[r], 1)
            /\ Apply(r, i, BackfillRedact(r, room_cache[r], hist[r], now,
                                          tasks[r][i]))
       ELSE Apply(r, i, Failed(r, room_cache[r], hist[r],
                               "Failed to delete events"))

\* asyncio.sleep(time_to_sleep_for_in_s) is over: send_room_redact
ExpirySleepDone(r, i) ==
    /\ Runs(r, i, "sleep_exp")
    /\ now >= tasks[r][i].wakeAt
    /\ Apply(r, i, Res([ Idle("redact") EXCEPT
                           !.tgt = room_cache[r].last_event_id ],
                       room_cache[r], FALSE, hist[r],
                       << Redact(r, room_cache[r].last_event_id) >>))

\* the server answers an event id of None with an error
CursorRedactStep(r, i, ok) ==
    /\ Runs(r, i, "redact")
    /\ IF ok /\ tasks[r][i].tgt # None
       THEN /\ Room4(hist[r], 1)
            /\ Apply(r, i, CursorRedact(r, room_cache[r], hist[r], now,
                                        tasks[r][i]))
       ELSE Apply(r, i, Failed(r, room_cache[r], hist[r],
                               "Failed to delete last expired event"))

NextEventStep(r, i, ok) ==
    /\ Runs(r, i, "next")
    /\ IF ok /\ tasks[r][i].lid # None
       THEN Apply(r, i, set_next_event(r, room_cache[r], hist[r], now,
                                       tasks[r][i]))
       ELSE Apply(r, i, Failed(r, room_cache[r], hist[r],
                               "Failed to find next event"))

LocateWake(r, i) ==
    /\ Runs(r, i, "sleep10")
    /\ Apply(r, i, LocateStart(r, room_cache[r], hist[r], now))

\* an error inside fetch_first_event_id reaches the bare "except:", whose
\* f-string names an unbound e: the task ends with a NameError, nothing sent
LocateScanStep(r, i, ok) ==
    /\ Runs(r, i, "ff")
    /\ IF ok
       THEN \E end \in EndTokens(BackPage(hist[r], tasks[r][i].end)) :
              Apply(r, i, LocateStep(r, room_cache[r], hist[r], now,
                                     tasks[r][i], end))
       ELSE Apply(r, i, [ Res(Idle("done"), room_cache[r], FALSE, hist[r],
                              << Raise(r, "NameError") >>)
                            EXCEPT !.failed = TRUE ])

(* ------------------------------ commands ------------------------------ *)
\* An argument is a string, held as its characters.
Digits == { "0", "1", "2", "3", "4", "5", "6", "7", "8", "9" }

DigitValue(c) ==
    CASE c = "0" -> 0 [] c = "1" -> 1 [] c = "2" -> 2 [] c = "3" -> 3
      [] c = "4" -> 4 [] c = "5" -> 5 [] c = "6" -> 6 [] c = "7" -> 7
      [] c = "8" -> 8 [] c = "9" -> 9

\* str.isnumeric: every character numeric (a vulgar fraction is), not empty
isnumeric(a) ==
    Len(a) > 0 /\ \A k \in 1..Len(a) : a[k] \in Digits \cup { "1/2" }

\* int(str) of a string of decimal digits
RECURSIVE int(_)
int(a) ==
    IF Len(a) = 0 THEN 0
    ELSE 10 * int(SubSeq(a, 1, Len(a) - 1)) + DigitValue(a[Len(a)])

\* the argument lists a "delay" command is tried with
ArgStrings ==
    { << "-", "5" >>, << "a", "b", "c" >>, << "0" >>, << "1", "0" >>,
      << "1/2" >> }

ArgLists ==
    { << >> } \cup { << a >> : a \in ArgStrings } \cup { << << "1" >>, << "2" >> >> }

CommandKinds == { "help", "enable", "disable", "delay", "confirm", "other" }

\* power levels of senders that are not admins
OtherLevels == { 0, 50 }

\* what a command handler leaves behind when it returns, raises or suspends
Done(rm, row, ts, reg, outs) ==
    [ rm |-> rm, row |-> row, tasks |-> ts, reg |-> reg, outs |-> outs,
      raised |-> FALSE, scan |-> FALSE ]

\* Room.set_delete_after
set_delete_after(rm, delete_after_m) ==
    [ rm EXCEPT !.delete_after_m = delete_after_m ]

\* Command._set_delay(delay)
_set_delay(r, rm, row, ts, reg, delay) ==
    IF ~isnumeric(delay)
    THEN Done(rm, row, ts, reg,
              << Send(r, "Please enter a numeric delay value in minutes") >>)
    ELSE IF \E k \in 1..Len(delay) : delay[k] \notin Digits
    THEN [ Done(rm, row, ts, reg, << Raise(r, "ValueError") >>)
             EXCEPT !.raised = TRUE ]
    ELSE IF int(delay) <= 0
    THEN Done(rm, row, ts, reg, << Send(r, "Delay must be positive") >>)
    ELSE Done(set_delete_after(rm, int(delay) * 60 * 1000),
              [ row EXCEPT !.delete_after = int(delay) * 60 * 1000 ],
              ts, reg, << >>)

\* Command._get_delay: the text is built and dropped
_get_delay(r, rm, row, ts, reg) == Done(rm, row, ts, reg, << >>)

\* calling a bound method that declares params parameters (self included)
\* with n positional arguments
Accepts(params, n) == n + 1 = params

\* Command._delay: self._set_delay(self, self.args[0]) and
\* self._get_delay(self) hand self over a second time
_delay(r, rm, row, ts, reg, args) ==
    IF Len(args) > 1
    THEN Done(rm, row, ts, reg, << Send(r, "COMMAND_DELAY") >>)
    ELSE IF Len(args) = 1
    THEN IF Accepts(2, 2) THEN _set_delay(r, rm, row, ts, reg, args[1])
         ELSE [ Done(rm, row, ts, reg, << Raise(r, "TypeError") >>)
                  EXCEPT !.raised = TRUE ]
    ELSE IF Accepts(1, 1) THEN _get_delay(r, rm, row, ts, reg)
         ELSE [ Done(rm, row, ts, reg, << Raise(r, "TypeError") >>)
                  EXCEPT !.raised = TRUE ]

\* Command._disable
_disable(r, rm, row, ts, reg) ==
    IF ~rm.deletion_turned_on
    THEN Done(rm, row, ts, reg, << Send(r, "Deletion already disabled.") >>)
    ELSE LET st == stop_room_loop(ts, reg) IN
         Done([ rm EXCEPT !.deletion_turned_on = FALSE ], row,
              st.tasks, st.reg,
              << Call(r, "stop", st.ret),
                 Send(r, IF st.ret THEN "Deletion disabled."
                         ELSE "Failed to disable room deletion.") >>)

\* Command._enable up to the first await of fetch_first_event_id
_enable(r, rm, row, ts, reg) ==
    IF rm.deletion_turned_on
    THEN Done(rm, row, ts, reg, << Send(r, "Deletion turned on.") >>)
    ELSE IF Falsy(rm.delete_after_m)
    THEN Done(rm, row, ts, reg, << Send(r, "Message timeout not set.") >>)
    ELSE [ Done(rm, row, ts, reg, << >>) EXCEPT !.scan = TRUE ]

\* a variant that does not ask whether an enable request is pending
_confirm_unasked(r, rm, row, ts, reg) ==
    LET st == start_room_loop(ts, reg) IN
    Done([ rm EXCEPT !.deletion_turned_on = TRUE,
                     !.accept_requested = FALSE ], row,
         st.tasks, st.reg,
         << Call(r, "start", st.ret),
            Send(r, IF st.ret THEN "Deleting old messages."
                    ELSE "Failed to start deletion process.") >>)

\* Command._confirm
_confirm(r, rm, row, ts, reg) ==
    IF ~rm.accept_requested
    THEN Done(rm, row, ts, reg, << Send(r, "Nothing to confirm.") >>)
    ELSE LET st == start_room_loop(ts, reg) IN
         Done([ rm EXCEPT !.deletion_turned_on = TRUE,
                          !.accept_requested = FALSE ], row,
              st.tasks, st.reg,
              << Call(r, "start", st.ret),
                 Send(r, IF st.ret THEN "Deleting old messages."
                         ELSE "Failed to start deletion process.") >>)

\* Command.process behind the admin check, with self.room in hand
Dispatch(r, kind, args, rm, row, ts, reg) ==
    CASE kind = "help" -> Done(rm, row, ts, reg, << Send(r, "help") >>)
      [] kind = "enable" -> _enable(r, rm, row, ts, reg)
      [] kind = "disable" -> _disable(r, rm, row, ts, reg)
      [] kind = "delay" -> _delay(r, rm, row, ts, reg, args)
      [] kind = "confirm" -> _confirm(r, rm, row, ts, reg)
      [] OTHER -> Done(rm, row, ts, reg, << Send(r, "Unknown command") >>)

\* a variant that does not look at the sender's power level
process_any_level(r, kind, args, level) ==
    LET found == get_existing(r)
        row == IF store[r].exists THEN store[r] ELSE NewRow
        rm == IF found.loaded THEN found ELSE LoadRoom(NewRow)
        pre == IF found.loaded THEN << >>
               ELSE << Send(r, "Room not initialized, initializing...") >>
        d == Dispatch(r, kind, args, rm, row, tasks[r], room_tasks[r])
    IN  [ d EXCEPT !.outs = pre \o @,
                   !.rm = IF found.loaded THEN @ ELSE NoRoom ]

\* Command.process: the sender's power level, Room.get_existing or
\* Room.create_new (whose Room is not put into Room.room_cache), the handler
process(r, kind, args, level) ==
    LET found == get_existing(r)
        row == IF store[r].exists THEN store[r] ELSE NewRow
        rm == IF found.loaded THEN found ELSE LoadRoom(NewRow)
        pre == IF found.loaded THEN << >>
               ELSE << Send(r, "Room not initialized, initializing...") >>
        d == Dispatch(r, kind, args, rm, row, tasks[r], room_tasks[r])
    IN  IF level = 100
        THEN [ d EXCEPT !.outs = pre \o @,
                        !.rm = IF found.loaded THEN @ ELSE NoRoom ]
        ELSE Done(room_cache[r], store[r], tasks[r], room_tasks[r], << >>)

\* callbacks.message -> Command.process, run inside the sync task.  An
\* exception that leaves the handler leaves the sync task and main() with
\* it.
Command(r, kind, args, level) ==
    /\ Up
    /\ cmd.pc = "idle"
    /\ ~CancelPending
    /\ kind # "delay" => args = << >>
    /\ LET d == process(r, kind, args, level) IN
       /\ store' = [ store EXCEPT ![r] = d.row ]
       /\ out' = Summary(d.outs, FALSE)
       /\ IF d.raised
          THEN \E land \in BOOLEAN :
                 /\ land => \E q \in Rooms : InFlight(q) # { }
                 /\ ProcessEnds(land)
          ELSE /\ room_cache' = [ room_cache EXCEPT ![r] = d.rm ]
               /\ tasks' = [ tasks EXCEPT ![r] = d.tasks ]
               /\ room_tasks' = [ room_tasks EXCEPT ![r] = d.reg ]
               /\ cmd' = IF d.scan
                         THEN [ pc |-> "ff", room |-> r, start |-> None,
                                end |-> EmptyTok ]
                         ELSE NoCmd
               /\ UNCHANGED << now, phase, hist >>

\* Command._enable: the answer to room_messages inside
\* fetch_first_event_id; at the end of the scan the replies are sent and
\* accept_requested is set
EnableScanStep(r, ok) ==
    /\ Up
    /\ cmd.pc = "ff"
    /\ cmd.room = r
    /\ IF ok
       THEN \E end \in EndTokens(BackPage(hist[r], cmd.end)) :
              LET f == fetch_first_event_id(room_cache[r], hist[r], now,
                                            cmd.end, end)
              IN  /\ cmd' = IF f.over THEN NoCmd
                            ELSE [ cmd EXCEPT !.start = f.start,
                                              !.end = f.end ]
                  /\ room_cache' = [ room_cache EXCEPT ![r] =
                       IF f.over THEN [ f.rm EXCEPT !.accept_requested = TRUE ]
                       ELSE @ ]
                  /\ store' = IF f.over
                              THEN [ store EXCEPT ![r] =
                                       set_room_event(@, f.rm) ]
                              ELSE store
                  /\ out' = IF ~f.over THEN Quiet
                            ELSE Summary(
                              << Send(r, IF f.cand = None
                                   THEN "No messages will be deleted currently."
                                   ELSE "All messages above this message will be deleted."),
                                 Send(r, "To enable message deletion, please confirm") >>,
                              FALSE)
                  /\ UNCHANGED << now, phase, hist, tasks, room_tasks >>
       ELSE /\ out' = Summary(<< Raise(r, "Exception") >>, FALSE)
            /\ UNCHANGED store
            /\ \E land \in BOOLEAN :
                 /\ land => \E q \in Rooms : InFlight(q) # { }
                 /\ ProcessEnds(land)

(* --------------------------- the specification ------------------------ *)
Next ==
    \/ Tick
    \/ \E r \in Rooms, type \in UserEventTypes : NewEvent(r, type)
    \/ \E land \in BOOLEAN : Kill(land)
    \/ Restart
    \/ Bootstrap
    \/ \E r \in Rooms, i \in TaskIds, land \in BOOLEAN : DeliverCancel(r, i, land)
    \/ \E r \in Rooms, i \in TaskIds : MainLoopWake(r, i)
    \/ \E r \in Rooms, i \in TaskIds, ok \in BOOLEAN : BackfillBackStep(r, i, ok)
    \/ \E r \in Rooms, i \in TaskIds, ok \in BOOLEAN : BackfillForwardStep(r, i, ok)
    \/ \E r \in Rooms, i \in TaskIds, ok \in BOOLEAN : BackfillRedactStep(r, i, ok)
    \/ \E r \in Rooms, i \in TaskIds : ExpirySleepDone(r, i)
    \/ \E r \in Rooms, i \in TaskIds, ok \in BOOLEAN : CursorRedactStep(r, i, ok)
    \/ \E r \in Rooms, i \in TaskIds, ok \in BOOLEAN : NextEventStep(r, i, ok)
    \/ \E r \in Rooms, i \in TaskIds : LocateWake(r, i)
    \/ \E r \in Rooms, i \in TaskIds, ok \in BOOLEAN : LocateScanStep(r, i, ok)
    \/ \E r \in Rooms, kind \in CommandKinds, args \in ArgLists :
         Command(r, kind, args, 100)
    \/ \E r \in Rooms, level \in OtherLevels : Command(r, "enable", << >>, level)
    \/ \E r \in Rooms, ok \in BOOLEAN : EnableScanStep(r, ok)

Spec == Init /\ [][Next]_vars

(* ------------------- the registry, called directly ------------------- *)
\* Destroyer.start_room_loop and Destroyer.stop_room_loop are static
\* methods: here any caller calls them at any time, whatever the commands
\* would do.  A start needs an unused task slot.
StartCall(r) ==
    /\ Up
    /\ cmd.pc = "idle"
    /\ ~CancelPending
    /\ room_cache[r].loaded
    /\ \E i \in TaskIds : tasks[r][i].pc = "free"
    /\ LET st == start_room_loop(tasks[r], room_tasks[r]) IN
       /\ tasks' = [ tasks EXCEPT ![r] = st.tasks ]
       /\ room_tasks' = [ room_tasks EXCEPT ![r] = st.reg ]
       /\ out' = Summary(<< Call(r, "start", st.ret) >>, FALSE)
    /\ UNCHANGED << now, phase, hist, store, room_cache, cmd >>

StopCall(r) ==
    /\ Up
    /\ cmd.pc = "idle"
    /\ ~CancelPending
    /\ room_cache[r].loaded
    /\ LET st == stop_room_loop(tasks[r], room_tasks[r]) IN
       /\ tasks' = [ tasks EXCEPT ![r] = st.tasks ]
       /\ room_tasks' = [ room_tasks EXCEPT ![r] = st.reg ]
       /\ out' = Summary(<< Call(r, "stop", st.ret) >>, FALSE)
    /\ UNCHANGED << now, phase, hist, store, room_cache, cmd >>

\* The runs in which nothing fails: no transport call is answered with an
\* error, the process is neither killed nor does a handler raise, nobody
\* else redacts; the admin sends enable and confirm only.
TaskStep(r, i) ==
    \/ MainLoopWake(r, i)
    \/ BackfillBackStep(r, i, TRUE)
    \/ BackfillForwardStep(r, i, TRUE)
    \/ BackfillRedactStep(r, i, TRUE)
    \/ ExpirySleepDone(r, i)
    \/ CursorRedactStep(r, i, TRUE)
    \/ NextEventStep(r, i, TRUE)
    \/ LocateWake(r, i)
    \/ LocateScanStep(r, i, TRUE)

NextNoFaults ==
    \/ Tick
    \/ \E r \in Rooms : PostMessage(r)
    \/ Bootstrap
    \/ \E r \in Rooms, i \in TaskIds : TaskStep(r, i)
    \/ \E r \in Rooms, kind \in { "enable", "confirm" } :
         Command(r, kind, << >>, 100)
    \/ \E r \in Rooms : EnableScanStep(r, TRUE)

NextRegistry ==
    \/ Tick
    \/ \E r \in Rooms : PostMessage(r)
    \/ Bootstrap
    \/ \E r \in Rooms, i \in TaskIds : TaskStep(r, i)
    \/ \E r \in Rooms, i \in TaskIds, land \in BOOLEAN : DeliverCancel(r, i, land)
    \/ \E r \in Rooms : StartCall(r)
    \/ \E r \in Rooms : StopCall(r)

SpecRegistry == Init /\ [][NextRegistry]_vars

(* ------------------------- the expiry arithmetic ---------------------- *)
\* The room's delay is set by Command._set_delay itself, messages are
\* posted and the clock goes minute by minute.
Minute ==
    /\ now < MaxMinutes
    /\ now' = now + 1
    /\ out' = Quiet
    /\ UNCHANGED << phase, hist, store, room_cache, tasks, room_tasks, cmd >>

SetDelay(r, delay) ==
    /\ room_cache[r].loaded
    /\ LET d == _set_delay(r, room_cache[r], store[r], tasks[r],
                           room_tasks[r], delay) IN
       /\ ~d.raised
       /\ room_cache' = [ room_cache EXCEPT ![r] = d.rm ]
       /\ store' = [ store EXCEPT ![r] = d.row ]
       /\ out' = Summary(d.outs, FALSE)
    /\ UNCHANGED << now, phase, hist, tasks, room_tasks, cmd >>

InitExpiry ==
    /\ now = 0
    /\ phase = "running"
    /\ hist = [ r \in Rooms |-> << >> ]
    /\ store = [ r \in Rooms |-> NewRow ]
    /\ room_cache = [ r \in Rooms |-> LoadRoom(NewRow) ]
    /\ tasks = [ r \in Rooms |-> FreeTasks ]
    /\ room_tasks = [ r \in Rooms |-> 0 ]
    /\ cmd = NoCmd
    /\ out = Quiet

NextExpiry ==
    \/ Minute
    \/ \E r \in Rooms : PostMessage(r)
    \/ \E r \in Rooms, delay \in ArgStrings : SetDelay(r, delay)

SpecExpiry == InitExpiry /\ [][NextExpiry]_vars

\* The event loop runs every task whose await is over, answers arrive and
\* the clock goes on.
SpecNoFaults ==
    /\ Init
    /\ [][NextNoFaults]_vars
    /\ WF_vars(Tick)
    /\ WF_vars(Bootstrap)
    /\ \A r \in Rooms : WF_vars(EnableScanStep(r, TRUE))
    /\ \A r \in Rooms, i \in TaskIds : WF_vars(TaskStep(r, i))

\* The room has other moderators: they redact messages too, and the admin
\* sends enable, confirm and disable once the first sync is over, so that
\* Destroyer() has run before any command.
NextOthers ==
    \/ Tick
    \/ \E r \in Rooms : PostMessage(r)
    \/ \E r \in Rooms : \E e \in UserEvents(hist[r]) : OtherRedact(r, e)
    \/ Bootstrap
    \/ \E r \in Rooms, i \in TaskIds : TaskStep(r, i)
    \/ \E r \in Rooms, i \in TaskIds, land \in BOOLEAN : DeliverCancel(r, i, land)
    \/ \E r \in Rooms, kind \in { "enable", "confirm", "disable" } :
         phase = "running" /\ Command(r, kind, << >>, 100)
    \/ \E r \in Rooms : EnableScanStep(r, TRUE)

SpecOthers == Init /\ [][NextOthers]_vars

\* The process is killed and started again at any time; no command arrives
\* and no transport call fails, so every task is one Destroyer() created
\* from the rows.
NextRestart ==
    \/ Tick
    \/ \E r \in Rooms : PostMessage(r)
    \/ \E land \in BOOLEAN : Kill(land)
    \/ Restart
    \/ Bootstrap
    \/ \E r \in Rooms, i \in TaskIds : TaskStep(r, i)

SpecRestart == Init /\ [][NextRestart]_vars

(* ------------------------------ properties ---------------------------- *)
LiveTasks(r) == { i \in TaskIds : Live(tasks[r][i]) }

\* C1: no redact call is ever issued for an event of an exempt type, and no
\* event of an exempt type is ever found redacted by the bot: neither by the
\* backfill, nor by the loop's redact of the cursor event, nor after cursor
\* advancement or the no-cursor polling.
C1_ExemptNeverRedacted ==
    \A r \in Rooms :
      /\ \A i \in InFlight(r) :
           TypeOf(hist[r][tasks[r][i].tgt]) \notin persist_event_types
      /\ \A k \in 1..Len(hist[r]) :
           hist[r][k].red = "bot" => TypeOf(hist[r][k]) \notin persist_event_types

\* the loop's redact call for the cursor event is in flight while an event
\* of an exempt type lies before it in the timeline
C1_Witness ==
    \E r \in Rooms, i \in TaskIds :
      /\ tasks[r][i].pc = "redact"
      /\ tasks[r][i].tgt # None
      /\ \E k \in 1..(tasks[r][i].tgt - 1) :
           TypeOf(hist[r][k]) \in persist_event_types

\* C2: a redact call for an event is in flight only when at least the
\* room's delay has elapsed since the event's timestamp: the minutes since
\* the timestamp reach the minutes that delete_after stands for.
C2_RedactOnlyAfterDelay ==
    \A r \in Rooms : \A i \in InFlight(r) :
      room_cache[r].delete_after_m # None =>
        now - hist[r][tasks[r][i].tgt].ts
          >= room_cache[r].delete_after_m \div MsPerMinute

\* C4: at most one task of a room is live (created and not yet finished).
C4_OneLiveTask ==
    \A r \in Rooms : Cardinality(LiveTasks(r)) <= 1

\* C9: whenever the cursor is set and a task of the room is past its
\* backfill (it sleeps until the cursor event expires, or its redact call
\* for the cursor event is in flight), every non-exempt event older than the
\* cursor event has been redacted.
C9_OlderRedacted ==
    \A r \in Rooms :
      ( /\ room_cache[r].last_event_id # None
        /\ \E i \in TaskIds : tasks[r][i].pc \in { "sleep_exp", "redact" } )
      => \A k \in 1..(room_cache[r].last_event_id - 1) :
           ~IsExempt(hist[r][k]) => event_redacted(hist[r][k])

\* C10: from one persisted cursor to the next, the cursor timestamp does
\* not decrease.
C10_CursorMonotone ==
    [][ \A r \in Rooms :
          (store[r].timestamp # None /\ store'[r].timestamp # None)
            => store'[r].timestamp >= store[r].timestamp ]_vars

\* the positions a timeline may come to hold
Positions == 1..(MaxMessages + MaxRedactions)

\* event e of room r is there, not exempt, expired by the room's own
\* measure and not redacted, while a task of the room runs with deletion
\* turned on and a delay configured
Overdue(r, e) ==
    /\ Up
    /\ LiveTasks(r) # { }
    /\ room_cache[r].deletion_turned_on
    /\ ~Falsy(room_cache[r].delete_after_m)
    /\ e <= Len(hist[r])
    /\ ~IsExempt(hist[r][e])
    /\ ~event_redacted(hist[r][e])
    /\ event_expired(room_cache[r], now, hist[r][e])

\* a task of the room sleeps until a time after the last tick of the clock
SleepsPastEnd(r) ==
    \E i \in LiveTasks(r) :
      tasks[r][i].pc = "sleep_exp" /\ tasks[r][i].wakeAt > MaxTime * TickMinutes

\* C3: when no transport call fails, no expired non-exempt event stays
\* unredacted for ever while a task of the room runs (and does not sleep
\* past the end of the clock): again and again it is not overdue.
C3_ExpiredEventuallyRedacted ==
    \A r \in Rooms, e \in Positions :
      []<>~(Overdue(r, e) /\ ~SleepsPastEnd(r))

\* C5: start_room_loop answers False and creates no task when room_tasks
\* holds an entry for the room; otherwise it creates exactly one task at the
\* start of main_loop, registers it under the room id and answers True, and
\* a start that follows answers False.
C5_StartContract ==
    [][ \A r \in Rooms :
          /\ out'.start = "false" =>
               /\ room_tasks[r] # 0
               /\ tasks'[r] = tasks[r]
               /\ room_tasks'[r] = room_tasks[r]
          /\ out'.start = "true" =>
               /\ room_tasks[r] = 0
               /\ room_tasks'[r] \in TaskIds
               /\ tasks[r][room_tasks'[r]].pc = "free"
               /\ tasks'[r] = [ tasks[r] EXCEPT
                                  ![room_tasks'[r]] = Idle("sleep2") ]
               /\ ~start_room_loop(tasks'[r], room_tasks'[r]).ret ]_vars

\* a start was refused while the task of the start before it has not yet run
C5_Witness ==
    \E r \in Rooms :
      /\ out.start = "false"
      /\ room_tasks[r] # 0
      /\ tasks[r][room_tasks[r]].pc = "sleep2"

\* C6: stop_room_loop answers False and leaves room_tasks alone when the
\* room has no entry; otherwise it removes the entry and asks the task to
\* cancel, answering True when the request is accepted and False when the
\* task had already finished.
C6_StopContract ==
    [][ \A r \in Rooms :
          /\ out'.stop = "false" =>
               \/ /\ room_tasks[r] = 0
                  /\ room_tasks'[r] = 0
                  /\ tasks'[r] = tasks[r]
               \/ /\ room_tasks[r] # 0
                  /\ tasks[r][room_tasks[r]].pc = "done"
                  /\ room_tasks'[r] = 0
          /\ out'.stop = "true" =>
               /\ room_tasks[r] # 0
               /\ Live(tasks[r][room_tasks[r]])
               /\ room_tasks'[r] = 0
               /\ tasks'[r] = [ tasks[r] EXCEPT
                                  ![room_tasks[r]].cancelled = TRUE ] ]_vars

\* a stop was accepted: the entry is gone and the task is yet to take its
\* cancellation
C6_Witness ==
    \E r \in Rooms, i \in TaskIds :
      /\ out.stop = "true"
      /\ room_tasks[r] = 0
      /\ tasks[r][i].cancelled

\* C7: with the delay set to N minutes by _set_delay, the minutes to expiry
\* of an event are N less the minutes since its timestamp, and the event
\* counts as expired exactly when that number is negative.
C7_MinutesToExpiry ==
    \A r \in Rooms :
      ~Falsy(room_cache[r].delete_after_m) =>
        \A k \in 1..Len(hist[r]) :
          LET N == room_cache[r].delete_after_m \div MsPerMinute
              age == now - hist[r][k].ts
          IN  /\ get_time_to_expiry_in_min(room_cache[r], now, hist[r][k].ts)
                   = N - age
              /\ event_expired(room_cache[r], now, hist[r][k]) <=> N - age < 0

\* a string of decimal digits that stands for a positive number
PositiveInt(a) ==
    /\ Len(a) > 0
    /\ \A k \in 1..Len(a) : a[k] \in Digits
    /\ int(a) > 0

\* C8: a "delay" command of an admin with one argument leaves delete_after
\* as it was, in the Room and in the row, when the argument is not a positive
\* integer, and sets both to N*60*1000 when the argument is the positive
\* integer N.
C8_SetDelay ==
    [][ \A r \in Rooms, a \in ArgStrings :
          Command(r, "delay", << a >>, 100) =>
            IF PositiveInt(a)
            THEN /\ store'[r].delete_after = int(a) * 60 * 1000
                 /\ room_cache'[r].delete_after_m = int(a) * 60 * 1000
            ELSE /\ store'[r].delete_after = store[r].delete_after
                 /\ Up' => room_cache'[r].delete_after_m
                             = room_cache[r].delete_after_m ]_vars

\* the redaction events of the bot in the timeline of room r, which lie there
\* in the order in which its redact calls arrived
BotRedactions(r) ==
    { k \in 1..Len(hist[r]) :
        hist[r][k].type = "m.room.redaction" /\ hist[r][k].sender = "bot" }

\* C11: the redact calls of a room target events in strictly increasing
\* timestamp order.  Stated here in the weaker form that the order never
\* decreases, so that two events of one and the same timestamp do not
\* count: of two calls that arrived the later one names an event whose
\* timestamp is not smaller, and so does a call in flight against every call
\* that arrived.
C11_RedactsInTimestampOrder ==
    \A r \in Rooms :
      /\ \A p, q \in BotRedactions(r) :
           p < q => hist[r][hist[r][p].redacts].ts <= hist[r][hist[r][q].redacts].ts
      /\ \A i \in InFlight(r) : \A p \in BotRedactions(r) :
           hist[r][hist[r][p].redacts].ts <= hist[r][tasks[r][i].tgt].ts

\* C12: delete_previous_events run twice in succession with the same cursor,
\* the timeline changed by nothing but the redactions of the first run, makes
\* no redact call in its second run.
C12_BackfillIdempotent ==
    \A r \in Rooms :
      (room_cache[r].loaded /\ room_cache[r].last_event_id # None) =>
        \A a1, a2 \in BOOLEAN :
          LET p1 == delete_previous_events(r, room_cache[r], hist[r], now, a1)
              p2 == delete_previous_events(r, room_cache[r], p1.h, now, a2)
          IN  p2.redacts = 0

\* the cursor is set and a first run of delete_previous_events redacts an
\* event
C12_Witness ==
    \E r \in Rooms :
      /\ room_cache[r].loaded
      /\ room_cache[r].last_event_id # None
      /\ delete_previous_events(r, room_cache[r], hist[r], now, FALSE).redacts > 0

\* C13: when the process is started again with a persisted cursor for an
\* enabled room, every non-exempt event older than the cursor event being
\* redacted already, main_loop goes from its start straight to the cursor
\* event: it sleeps until the event expires or, the event being expired,
\* sends the redact call for it; it runs neither fetch_first_event_id nor
\* delete_previous_events first.
C13_RestartResumesAtCursor ==
    [][ \A r \in Rooms, i \in TaskIds :
          ( /\ MainLoopWake(r, i)
            /\ store[r].deletion_turned_on = "1"
            /\ store[r].event_id # None
            /\ \A k \in 1..(store[r].event_id - 1) :
                 ~IsExempt(hist[r][k]) => event_redacted(hist[r][k]) )
          => \/ /\ tasks'[r][i].pc = "sleep_exp"
                /\ ~event_expired(room_cache[r], now, hist[r][store[r].event_id])
             \/ /\ tasks'[r][i].pc = "redact"
                /\ tasks'[r][i].tgt = store[r].event_id ]_vars

\* the cursor quad as the row holds it and as the Room object holds it
RowCursor(row) ==
    << row.event_id, row.timestamp, row.batch_token_start, row.batch_token_end >>

RoomCursor(rm) ==
    << rm.last_event_id, rm.timestamp, rm.batch_token_start, rm.batch_token_end >>

CursorKept(r) ==
    /\ RowCursor(store'[r]) = RowCursor(store[r])
    /\ (room_cache[r].loaded /\ room_cache'[r].loaded)
         => RoomCursor(room_cache'[r]) = RoomCursor(room_cache[r])

\* C14: the cursor quad, in the Room object and in the row, changes only
\* in a step that ends set_next_event, which a task enters only from the
\* redact call for the cursor event, answered without error, or in a
\* step that ends fetch_first_event_id, which runs when there is no cursor
\* event to redact (main_loop's else branch) or on the enable command.  A
\* step in which the loop ends on an error (redact call refused, error
\* inside set_next_event, fetch_first_event_id or delete_previous_events),
\* a step in which a cancel is delivered and the end of the process leave
\* both quads as they were.
C14_CursorSurvivesFailure ==
    [][ \A r \in Rooms :
          /\ ~CursorKept(r) =>
                \/ \E i \in TaskIds : tasks[r][i].pc \in { "next", "ff" }
                \/ cmd.pc = "ff" /\ cmd.room = r
          /\ \A i \in TaskIds :
               (tasks'[r][i].pc = "next" /\ tasks[r][i].pc # "next")
                 => /\ tasks[r][i].pc = "redact"
                    /\ event_redacted_by_bot(hist'[r][tasks[r][i].tgt])
          /\ out'.failed => CursorKept(r)
          /\ (\E i \in TaskIds : tasks[r][i].cancelled /\ ~tasks'[r][i].cancelled)
               => CursorKept(r)
          /\ (Up /\ ~Up') => CursorKept(r) ]_vars

\* the loop ended on an error with a cursor event at hand, and the Room
\* object and the row still hold that event
C14_Witness ==
    \E r \in Rooms :
      /\ out.failed
      /\ room_cache[r].loaded
      /\ store[r].event_id # None
      /\ RoomCursor(room_cache[r]) = RowCursor(store[r])
      /\ \E i \in TaskIds : tasks[r][i].pc = "done"

\* the tasks a step creates for a room
CreatedIn(r) ==
    { i \in TaskIds : tasks[r][i].pc = "free" /\ tasks'[r][i].pc = "sleep2" }

\* C15: Destroyer(), run when the first sync is over, creates exactly one
\* task, stored in room_tasks, for every room whose row has
\* deletion_turned_on = '1', and creates no task and leaves room_tasks
\* alone for a room without a row or with the flag unset.
C15_BootstrapFromRows ==
    [][ (phase = "syncing" /\ phase' = "running") =>
          \A r \in Rooms :
            IF store[r].exists /\ store[r].deletion_turned_on = "1"
            THEN /\ Cardinality(CreatedIn(r)) = 1
                 /\ room_tasks'[r] \in CreatedIn(r)
            ELSE /\ CreatedIn(r) = { }
                 /\ room_tasks'[r] = room_tasks[r] ]_vars

\* C16: whenever no command is being handled, the deletion flag of a
\* room's row says what the Room object's flag says, so that Destroyer()
\* after a restart creates a task for the room exactly when the last
\* confirm or disable left it enabled.
C16_FlagPersisted ==
    \A r \in Rooms :
      (room_cache[r].loaded /\ cmd.pc = "idle") =>
        ((store[r].deletion_turned_on = "1") = room_cache[r].deletion_turned_on)

\* the room's task ended on an error and nothing was done about it since:
\* the finished task is the one in Destroyer.room_tasks
Crashed(r) ==
    /\ room_cache[r].loaded
    /\ room_tasks[r] # 0
    /\ tasks[r][room_tasks[r]].pc = "done"
    /\ LiveTasks(r) = { }

\* C17: once a room's loop has ended on an error, the admin's enable is
\* taken as a request (fetch_first_event_id runs, the confirmation is asked
\* for), and the confirm that follows starts a task: start_room_loop
\* returns True although the finished task was in Destroyer.room_tasks.
C17_CrashedRoomRestarts ==
    [][ \A r \in Rooms :
          /\ ( /\ Crashed(r)
               /\ ~Falsy(room_cache[r].delete_after_m)
               /\ Command(r, "enable", << >>, 100) )
              => cmd'.pc = "ff"
          /\ ( /\ LiveTasks(r) = { }
               /\ room_cache[r].loaded
               /\ room_cache[r].accept_requested
               /\ Command(r, "confirm", << >>, 100) )
              => out'.start = "true" ]_vars

\* C18: a step in which a room's task ends on an error (inside
\* delete_previous_events at the start or after fetch_first_event_id, on
\* the redact call for the cursor event, inside set_next_event, inside
\* fetch_first_event_id) posts exactly one message into the room.
C18_OneDiagnosticPerFailure ==
    [][ out'.failed => out'.diag = 1 ]_vars

\* C19: a step in which a transport call made for a room is answered with
\* an error, or delete_previous_events finds an event that has not expired
\* (in a task of main_loop, or in fetch_first_event_id run by the enable
\* command), ends at most that room's task: the process stays up, and no
\* task of another room changes.
C19_ErrorsStayInRoom ==
    [][ \A r \in Rooms :
          ( \/ \E i \in TaskIds :
                 /\ Live(tasks[r][i])
                 /\ ~Live(tasks'[r][i])
                 /\ out'.failed
             \/ EnableScanStep(r, FALSE) )
          => /\ Up'
             /\ \A q \in Rooms \ { r } : tasks'[q] = tasks[q] ]_vars

\* the non-exempt events of a room the scheduler is known to have met: it
\* sent a redact call for them or holds one as its cursor
ObservedNonExempt(r) ==
    { k \in 1..Len(hist[r]) :
        /\ ~IsExempt(hist[r][k])
        /\ \/ event_redacted_by_bot(hist[r][k])
           \/ k = room_cache[r].last_event_id }

\* C20: a cursor that is present, in the Room object or in the row, names
\* an event of the room's history that is not of an exempt type: with no
\* such event met, last_event_id is absent.
C20_CursorIsNonExemptEvent ==
    \A r \in Rooms :
      /\ (room_cache[r].loaded /\ room_cache[r].last_event_id # None) =>
           /\ room_cache[r].last_event_id \in 1..Len(hist[r])
           /\ ~IsExempt(hist[r][room_cache[r].last_event_id])
      /\ store[r].event_id # None =>
           /\ store[r].event_id \in 1..Len(hist[r])
           /\ ~IsExempt(hist[r][store[r].event_id])

\* set_next_event has moved the cursor on: an older event was redacted by
\* the bot, events of an exempt type lie between it and the cursor
C20_Witness ==
    \E r \in Rooms :
      /\ room_cache[r].loaded
      /\ room_cache[r].last_event_id # None
      /\ store[r].event_id = room_cache[r].last_event_id
      /\ \E k \in 1..(room_cache[r].last_event_id - 2) :
           /\ event_redacted_by_bot(hist[r][k])
           /\ \A j \in (k + 1)..(room_cache[r].last_event_id - 1) :
                IsExempt(hist[r][j])

\* C20 as stated: last_event_id is absent exactly when the scheduler has
\* met no non-exempt event in the room.
C20_AbsentIffNothingObserved ==
    \A r \in Rooms :
      room_cache[r].loaded =>
        ((room_cache[r].last_event_id = None) <=> (ObservedNonExempt(r) = { }))

\* C21: whenever the sync task can take a command, each of enable, confirm,
\* disable and delay (with or without argument) sent by an admin is
\* answered with at least one message to the room, at once or, for an
\* enable that runs fetch_first_event_id, at the end of that scan.
C21_CommandAnswered ==
    \A r \in Rooms, kind \in { "enable", "confirm", "disable", "delay" },
       args \in ArgLists :
      ( /\ Up
        /\ cmd.pc = "idle"
        /\ ~CancelPending
        /\ kind # "delay" => args = << >> )
      => LET d == process(r, kind, args, 100)
         IN  d.scan \/ Count(d.outs, "send") >= 1

\* the events a backward listing from token tok goes over
Below(h, tok) == 1..(IF tok = EmptyTok THEN Len(h) ELSE tok)

\* C22: when no event at or below the cursor's bracket end is redacted by
\* the bot, a pass of delete_previous_events that does not raise leaves
\* every expired event of a non-exempt type older than the cursor event
\* redacted, whether the exhausted listing answers with its start token
\* or with no end token.
C22_BackfillCoversHistory ==
    \A r \in Rooms :
      ( /\ room_cache[r].loaded
        /\ room_cache[r].last_event_id # None
        /\ room_cache[r].batch_token_end # None
        /\ \A k \in Below(hist[r], room_cache[r].batch_token_end) :
             ~event_redacted_by_bot(hist[r][k]) )
      => \A absent \in BOOLEAN :
           LET p == delete_previous_events(r, room_cache[r], hist[r], now, absent)
           IN  \/ p.failed
               \/ \A k \in 1..(room_cache[r].last_event_id - 1) :
                    ( /\ ~IsExempt(hist[r][k])
                      /\ event_expired(room_cache[r], now, hist[r][k]) )
                    => event_redacted(p.h[k])

\* the chunk the second loop of delete_previous_events goes over in the
\* next step of task i, and what stops the loop there
ChunkAhead(r, i) ==
    IF tasks[r][i].pc = "bf_redact" THEN tasks[r][i].chunk
    ELSE Snapshot(hist[r], FrontPage(hist[r], tasks[r][i].end).ids)

ScanAhead(r, i) == ForwardScan(room_cache[r], now, hist[r], ChunkAhead(r, i), 1)

\* the forward scan of task i is about to meet, before the cursor event, an
\* event of a non-exempt type that is neither redacted nor expired
MeetsUnexpired(r, i) ==
    /\ tasks[r][i].pc \in { "bf_fwd", "bf_redact" }
    /\ ~tasks[r][i].cancelled
    /\ Up
    /\ ScanAhead(r, i).kind = "raise"

\* C23: when the forward scan of delete_previous_events meets, before the
\* cursor event, an event of a non-exempt type that is neither redacted
\* nor expired, the pass ends there with an error: the task ends with one
\* message, no redact call goes out for that event or any later one, and
\* the cursor quad stays as it was.
C23_UnexpiredAbortsBackfill ==
    [][ \A r \in Rooms, i \in TaskIds :
          ( /\ MeetsUnexpired(r, i)
            /\ \/ BackfillForwardStep(r, i, TRUE)
               \/ BackfillRedactStep(r, i, TRUE) )
          => /\ ~Live(tasks'[r][i])
             /\ out'.failed /\ out'.diag = 1
             /\ \A k \in 1..Len(ChunkAhead(r, i)) :
                  k >= ScanAhead(r, i).k =>
                    ~event_redacted(hist'[r][ChunkAhead(r, i)[k].id])
                      \/ event_redacted(hist[r][ChunkAhead(r, i)[k].id])
             /\ CursorKept(r) ]_vars

C23_Witness == \E r \in Rooms, i \in TaskIds : MeetsUnexpired(r, i)

\* C24: a room_messages call or a redact call of delete_previous_events
\* that is answered with an error ends the pass at once: the task ends
\* with one message, the timeline is as before (no redaction has landed),
\* no redact call of the task is in flight, and the cursor quad stays as
\* it was.
C24_BackfillFailsFast ==
    [][ \A r \in Rooms, i \in TaskIds :
          ( \/ BackfillBackStep(r, i, FALSE)
            \/ BackfillForwardStep(r, i, FALSE)
            \/ BackfillRedactStep(r, i, FALSE) )
          => /\ ~Live(tasks'[r][i])
             /\ out'.failed /\ out'.diag = 1
             /\ hist'[r] = hist[r]
             /\ i \notin { j \in TaskIds : tasks'[r][j].pc \in { "redact", "bf_redact" } }
             /\ CursorKept(r) ]_vars

\* a pass of delete_previous_events has just ended on an error with an
\* expired event older than the cursor event still unredacted
C24_Witness ==
    \E r \in Rooms :
      /\ out.failed
      /\ out.text = "Failed to delete events"
      /\ room_cache[r].loaded
      /\ room_cache[r].last_event_id # None
      /\ \E k \in 1..(room_cache[r].last_event_id - 1) :
           /\ ~IsExempt(hist[r][k])
           /\ ~event_redacted(hist[r][k])
           /\ event_expired(room_cache[r], now, hist[r][k])

\* the events fetch_first_event_id may take: of a non-exempt type, expired,
\* and with every event redacted by the bot older than they are
Candidates(rm, h, t) ==
    { k \in 1..Len(h) :
        /\ ~IsExempt(h[k])
        /\ event_expired(rm, t, h[k])
        /\ \A j \in 1..Len(h) : event_redacted_by_bot(h[j]) => j < k }

\* C25: with a delay set, fetch_first_event_id run over the room's
\* timeline sets the cursor to the newest event that is of a non-exempt
\* type, expired and newer than every event redacted by the bot, with that
\* event's timestamp and a bracket of tokens around it, and returns its
\* id; when there is no such event it sets the cursor quad to None and
\* returns None.  With no delay set main_loop's no-cursor branch and the
\* enable command leave the cursor alone and start no scan.
C25_LocateNewestExpired ==
    \A r \in Rooms :
      room_cache[r].loaded =>
        IF Falsy(room_cache[r].delete_after_m)
        THEN /\ LET res == LocateStart(r, room_cache[r], hist[r], now)
                IN  res.rm = room_cache[r] /\ ~res.wrote /\ res.task.pc # "ff"
             /\ ~_enable(r, room_cache[r], store[r], tasks[r], room_tasks[r]).scan
        ELSE \A absent \in BOOLEAN :
               LET f == LocateScan(room_cache[r], hist[r], now, EmptyTok, absent)
                   c == Candidates(room_cache[r], hist[r], now)
               IN  IF c = { }
                   THEN f.cand = None /\ RoomCursor(f.rm) = << None, None, None, None >>
                   ELSE /\ f.cand \in c
                        /\ \A k \in c : k <= f.cand
                        /\ f.rm.last_event_id = f.cand
                        /\ f.rm.timestamp = hist[r][f.cand].ts
                        /\ f.rm.batch_token_start < f.cand
                        /\ f.cand <= f.rm.batch_token_end

\* the scan has something to choose from: an expired message newer than an
\* event the bot redacted, and a newer message that has not expired
C25_Witness ==
    \E r \in Rooms :
      /\ room_cache[r].loaded
      /\ ~Falsy(room_cache[r].delete_after_m)
      /\ \E j, k, m \in 1..Len(hist[r]) :
           /\ j < k /\ k < m
           /\ event_redacted_by_bot(hist[r][j])
           /\ k \in Candidates(room_cache[r], hist[r], now)
           /\ ~IsExempt(hist[r][m])
           /\ ~event_expired(room_cache[r], now, hist[r][m])
           /\ LocateScan(room_cache[r], hist[r], now, EmptyTok, FALSE).cand = k

\* C26: fetch_first_event_id runs for a room, in its task or in the enable
\* command, only while the room has no cursor.
C26_LocateOnlyWithoutCursor ==
    \A r \in Rooms :
      ( \/ cmd.pc = "ff" /\ cmd.room = r
        \/ \E i \in TaskIds : tasks[r][i].pc = "ff" )
      => room_cache[r].last_event_id = None

\* the events of a non-exempt type after event c
LaterNonExempt(h, c) == { k \in (c + 1)..Len(h) : ~IsExempt(h[k]) }

\* what set_next_event leaves when it starts at the cursor of room r
Advanced(r) ==
    AdvancePass(r, room_cache[r], now,
                Res([ Idle("next") EXCEPT !.lid = room_cache[r].last_event_id ],
                    room_cache[r], FALSE, hist[r], << >>))

\* C27: set_next_event, run when the cursor event has been redacted by the
\* bot, sets the cursor to the first event after it whose type is not
\* exempt, with that event's timestamp and a token pair around it, in the
\* Room object and in the row; it redacts nothing itself (the only redact
\* call main_loop may go on to is the one for the new cursor event).  When
\* no event of a non-exempt type follows, the cursor quad is set to None
\* in both places and main_loop goes to its no-cursor branch.
C27_AdvanceToNextNonExempt ==
    \A r \in Rooms :
      ( /\ room_cache[r].loaded
        /\ room_cache[r].last_event_id # None
        /\ event_redacted_by_bot(hist[r][room_cache[r].last_event_id]) )
      => LET res == Advanced(r)
             later == LaterNonExempt(hist[r], room_cache[r].last_event_id)
         IN  /\ res.wrote
             /\ ~res.failed
             /\ res.h = hist[r]
             /\ IF later = { }
                THEN /\ RoomCursor(res.rm) = << None, None, None, None >>
                     /\ res.outs = << >>
                     /\ res.task.pc =
                          (IF room_cache[r].deletion_turned_on THEN "sleep10"
                           ELSE "done")
                ELSE /\ res.rm.last_event_id \in later
                     /\ \A k \in later : res.rm.last_event_id <= k
                     /\ res.rm.timestamp = hist[r][res.rm.last_event_id].ts
                     /\ res.rm.batch_token_start < res.rm.last_event_id
                     /\ res.rm.last_event_id <= res.rm.batch_token_end
                     /\ \A k \in 1..Len(res.outs) :
                          res.outs[k] = Redact(r, res.rm.last_event_id)

\* the cursor event is redacted, and behind its redaction event, which is
\* skipped, a message waits to become the cursor
C27_Witness ==
    \E r \in Rooms :
      /\ room_cache[r].loaded
      /\ room_cache[r].last_event_id # None
      /\ event_redacted_by_bot(hist[r][room_cache[r].last_event_id])
      /\ \E i \in TaskIds : tasks[r][i].pc = "next"
      /\ LaterNonExempt(hist[r], room_cache[r].last_event_id) # { }
      /\ Advanced(r).rm.last_event_id > room_cache[r].last_event_id + 1

\* C28: no redact call of the bot is in flight for an event that is
\* redacted already, by the bot or by another user.
C28_NoRedactOfRedacted ==
    \A r \in Rooms : \A i \in InFlight(r) :
      ~event_redacted(hist[r][tasks[r][i].tgt])

\* a token as a position of the timeline: the empty token of a first call
\* stands above the newest event
Pos(h, tok) == IF tok = EmptyTok THEN Len(h) + 1 ELSE tok

\* C29: every answer to a transport call of a paginating loop either ends
\* the loop or moves it on: the backward listings of fetch_first_event_id
\* (in a task and in the enable command) and of the first loop of
\* delete_previous_events continue from a strictly lower position, the
\* forward listing of the second loop from a strictly higher one, not above
\* the end of the timeline, with the chunk in hand getting shorter at each
\* redact call, and set_next_event continues from a strictly later event.
\* No loop asks for the newest page again or for the same page twice, so on
\* a finite timeline each ends after finitely many calls.
C29_ScansAdvance ==
    /\ \A r \in Rooms, i \in TaskIds :
         LET a == tasks[r][i]
             rm == room_cache[r]
             h == hist[r]
         IN  /\ a.pc = "ff" =>
                  \A end \in EndTokens(BackPage(h, a.end)) :
                    LET b == LocateStep(r, rm, h, now, a, end).task
                    IN  b.pc = "ff" => b.end >= 0 /\ b.end < Pos(h, a.end)
             /\ a.pc = "bf_back" =>
                  \A end \in EndTokens(BackPage(h, a.end)) :
                    LET b == BackfillBack(r, rm, h, now, a, end).task
                    IN  /\ b.pc = "bf_back" => b.end >= 0 /\ b.end < Pos(h, a.end)
                        /\ b.pc = "bf_fwd" => b.end >= 0 /\ b.end <= Len(h)
             /\ a.pc = "bf_fwd" =>
                  \A end \in EndTokens(FrontPage(h, a.end)) :
                    LET b == BackfillForward(r, rm, h, now, a, end).task
                    IN  b.pc \in { "bf_fwd", "bf_redact" }
                          => b.end > a.end /\ b.end <= Len(h)
             /\ a.pc = "bf_redact" =>
                  LET b == BackfillRedact(r, rm, h, now, a).task
                  IN  /\ b.pc = "bf_redact" =>
                           b.end = a.end /\ Len(b.chunk) < Len(a.chunk)
                      /\ b.pc = "bf_fwd" => b.end = a.end
             /\ (a.pc = "next" /\ a.lid # None) =>
                  LET b == set_next_event(r, rm, h, now, a).task
                  IN  b.pc = "next" => b.lid > a.lid /\ b.lid <= Len(h)
    /\ cmd.pc = "ff" =>
         \A end \in EndTokens(BackPage(hist[cmd.room], cmd.end)) :
           LET f == fetch_first_event_id(room_cache[cmd.room], hist[cmd.room],
                                         now, cmd.end, end)
           IN  ~f.over => f.end >= 0 /\ f.end < Pos(hist[cmd.room], cmd.end)

\* a backward scan is past its first page and the listing it asks for next
\* is exhausted
C29_Witness ==
    \E r \in Rooms, i \in TaskIds :
      /\ tasks[r][i].pc \in { "ff", "bf_back" }
      /\ tasks[r][i].start # None
      /\ Len(hist[r]) > 0
      /\ Len(BackPage(hist[r], tasks[r][i].end).ids) = 0

\* a command step that leaves the room as Room.get_existing found it: no
\* field of the Room object, no column of the row, no task, no scan
CommandIdle(r) ==
    /\ room_cache'[r] = get_existing(r)
    /\ store'[r] = store[r]
    /\ tasks'[r] = tasks[r]
    /\ room_tasks'[r] = room_tasks[r]
    /\ cmd' = cmd
    /\ Up'

\* C30: a command starts a task only for a room with a delay set and an
\* enable request pending, and the confirm that starts it clears the
\* request; enable on a room (with a row) whose delay is not set is
\* answered with a message, sets no request and changes nothing; confirm
\* with no request pending is answered, starts no task and changes nothing.
C30_NoShortcut ==
    [][ \A r \in Rooms :
          /\ ( (\E kind \in CommandKinds, args \in ArgLists :
                   Command(r, kind, args, 100))
               /\ CreatedIn(r) # { } )
              => /\ get_existing(r).accept_requested
                 /\ ~Falsy(get_existing(r).delete_after_m)
                 /\ Command(r, "confirm", << >>, 100)
                 /\ ~room_cache'[r].accept_requested
                 /\ out'.start = "true"
          /\ ( /\ Command(r, "enable", << >>, 100)
               /\ store[r].exists
               /\ ~get_existing(r).deletion_turned_on
               /\ Falsy(get_existing(r).delete_after_m) )
              => /\ CommandIdle(r)
                 /\ ~room_cache'[r].accept_requested
                 /\ Count(process(r, "enable", << >>, 100).outs, "send") = 1
          /\ ( /\ Command(r, "confirm", << >>, 100)
               /\ store[r].exists
               /\ ~get_existing(r).accept_requested )
              => /\ CommandIdle(r)
                 /\ out'.start = "none"
                 /\ Count(process(r, "confirm", << >>, 100).outs, "send") = 1 ]_vars

\* confirm has just started the task of a room whose enable request was
\* pending: the request is cleared, the room is enabled and has a delay
C30_Witness ==
    \E r \in Rooms :
      /\ out.start = "true"
      /\ room_cache[r].loaded
      /\ ~room_cache[r].accept_requested
      /\ room_cache[r].deletion_turned_on
      /\ ~Falsy(room_cache[r].delete_after_m)
      /\ room_tasks[r] # 0
      /\ tasks[r][room_tasks[r]].pc = "sleep2"

\* the room is disabled: Command._disable has set the flag and
\* stop_room_loop has taken the room's entry out of Destroyer.room_tasks
Disabled(r) ==
    /\ Up
    /\ room_cache[r].loaded
    /\ ~room_cache[r].deletion_turned_on
    /\ room_tasks[r] = 0
    /\ cmd.pc = "idle"

\* C31: once a room is disabled, no step sends a new redact call for the
\* room (a call in flight may still arrive) and no step changes the cursor
\* quad of the Room object or of the row.
C31_DisabledRoomIsQuiet ==
    [][ \A r \in Rooms :
          Disabled(r) =>
            /\ \A i \in TaskIds :
                 ( /\ tasks'[r][i].pc \in { "redact", "bf_redact" }
                   /\ tasks'[r][i].tgt # None )
                 => tasks'[r][i] = tasks[r][i]
            /\ CursorKept(r) ]_vars

\* the positions of main_loop inside fetch_first_event_id,
\* delete_previous_events and set_next_event
ScanPositions == { "ff", "bf_back", "bf_fwd", "bf_redact", "next" }

\* the scans of room r in progress: those of its tasks, and that of an
\* enable command (named 0)
ScansInProgress(r) ==
    { i \in TaskIds : tasks[r][i].pc \in ScanPositions }
        \cup (IF cmd.pc = "ff" /\ cmd.room = r THEN { 0 } ELSE {})

\* C32: for one room at most one of fetch_first_event_id,
\* delete_previous_events and set_next_event is in progress at any time,
\* counting the scans of the room's tasks and of the enable command.
C32_OneScanPerRoom ==
    \A r \in Rooms : Cardinality(ScansInProgress(r)) <= 1

(* --------------------------- the exact instant ------------------------- *)
\* The clock advances by exactly the delay of one configured minute, so
\* that get_time_to_expiry_in_min returns zero for an event posted one
\* step earlier.
TickExact ==
    /\ now < (MaxTime + 1) * MsPerMinute
    /\ now' = now + MsPerMinute
    /\ out' = Quiet
    /\ UNCHANGED << phase, hist, store, room_cache, tasks, room_tasks, cmd >>

\* Tasks created from the rows, as in SpecRestart: no command and no
\* failing call.
NextBoundary ==
    \/ TickExact
    \/ \E r \in Rooms : PostMessage(r)
    \/ \E land \in BOOLEAN : Kill(land)
    \/ Restart
    \/ Bootstrap
    \/ \E r \in Rooms, i \in TaskIds : TaskStep(r, i)

SpecBoundary == Init /\ [][NextBoundary]_vars

\* the Room has a cursor whose time to expiry can be computed
HasTimedCursor(r) ==
    /\ room_cache[r].loaded
    /\ room_cache[r].deletion_turned_on
    /\ room_cache[r].last_event_id # None
    /\ ~Falsy(room_cache[r].delete_after_m)

\* C33: at every instant the expiry test of the scans (event_expired) and
\* the sleep decision of main_loop agree on the cursor event: the loop
\* redacts without sleeping exactly when event_expired calls the event
\* expired, also when its time to expiry is exactly zero.
C33_BoundaryAgrees ==
    \A r \in Rooms :
      HasTimedCursor(r) =>
        ( event_expired(room_cache[r], now, [ ts |-> room_cache[r].timestamp ])
          <=> LoopTop(r, room_cache[r], FALSE, hist[r], now).task.pc = "redact" )

\* the commands as they arrive: "delay" with any argument list, the others
\* without arguments
Arrivals ==
    { << kind, << >> >> : kind \in CommandKinds }
        \cup { << "delay", args >> : args \in ArgLists }

\* C34: a command of a sender whose power level is not 100, whatever the
\* command and its arguments, leaves the rows, the Room objects, the tasks,
\* the registry, the timeline and the command in progress as they were, and
\* sends no message.
C34_NonAdminIgnored ==
    [][ \A r \in Rooms, level \in OtherLevels, c \in Arrivals :
          Command(r, c[1], c[2], level) =>
            /\ UNCHANGED << now, phase, hist, store, room_cache, tasks,
                            room_tasks, cmd >>
            /\ process(r, c[1], c[2], level).outs = << >>
            /\ out' = Quiet ]_vars

\* the state a command of a non-admin leaves behind, where the same command
\* of an admin would have started the scan of enable: the Room object is
\* loaded, has a delay and is not enabled, no scan is in progress and
\* nothing was sent
C34_Witness ==
    \E r \in Rooms, level \in OtherLevels :
      /\ Up
      /\ cmd.pc = "idle"
      /\ ~CancelPending
      /\ out = Quiet
      /\ room_cache[r].loaded
      /\ ~room_cache[r].deletion_turned_on
      /\ ~room_cache[r].accept_requested
      /\ ~Falsy(room_cache[r].delete_after_m)
      /\ process(r, "enable", << >>, 100).scan
      /\ ~process(r, "enable", << >>, level).scan
      /\ process(r, "enable", << >>, level).outs = << >>

=============================================================================
